---------------------------- MODULE Spec2Model ----------------------------
(***************************************************************************)
(* Model of the portfolio chatbot backend: app.py (Flask facade, keyword   *)
(* context extractor, answer generator), wsgi.py (second entry point) and  *)
(* test.py (embedding matcher).                                            *)
(*                                                                         *)
(* Python strings are TLA+ strings; the string built-ins the code uses     *)
(* (lower, strip, replace, title, join, in, sorted) are computed character *)
(* by character.  A Python dict whose keys are looked up with .get is a    *)
(* TLA+ record (a function on the keys present); a dict or a list that the *)
(* code iterates is a sequence, in insertion order.                        *)
(***************************************************************************)
EXTENDS Integers, Sequences, FiniteSets, TLC

VARIABLES
    entry,           \* how the process was started: app.py or wsgi.py
    env,             \* GOOGLE_API_KEY of the environment
    configure_ok,    \* whether genai.configure / GenerativeModel succeed
    json_file,       \* ./sreedata.json on disk
    disk,            \* the image folders on disk
    pc,              \* position of the process: import, initialize, serving
    gemini_model,    \* app.py global
    portfolio_data,  \* app.py global
    init_ran,        \* initialize_app has returned
    req,             \* the requests being handled, one per worker thread
    api_calls,       \* calls of gemini_model.generate_content so far
    sp,              \* search_portfolio_data applied to drawn inputs
    fs,              \* find_similar_content applied to drawn inputs
    fr               \* generate_fallback_response applied to drawn inputs

vars == <<entry, env, configure_ok, json_file, disk, pc, gemini_model,
          portfolio_data, init_ran, req, api_calls, sp, fs, fr>>

-----------------------------------------------------------------------------
(* Python string built-ins *)

UpperLetters == "ABCDEFGHIJKLMNOPQRSTUVWXYZ"
LowerLetters == "abcdefghijklmnopqrstuvwxyz"

CharAt(s, i) == SubSeq(s, i, i)

IndexIn(c, alphabet) ==
    IF \E i \in 1..Len(alphabet) : CharAt(alphabet, i) = c
    THEN CHOOSE i \in 1..Len(alphabet) : CharAt(alphabet, i) = c
    ELSE 0

\* the case mappings of the ASCII letters, as tables
ToLower == [c \in { CharAt(UpperLetters, i) : i \in 1..Len(UpperLetters) } |->
              CharAt(LowerLetters, IndexIn(c, UpperLetters))]
ToUpper == [c \in { CharAt(LowerLetters, i) : i \in 1..Len(LowerLetters) } |->
              CharAt(UpperLetters, IndexIn(c, LowerLetters))]

IsUpper(c) == c \in DOMAIN ToLower
IsLower(c) == c \in DOMAIN ToUpper
IsAlpha(c) == IsUpper(c) \/ IsLower(c)

LowerChar(c) == IF IsUpper(c) THEN ToLower[c] ELSE c
UpperChar(c) == IF IsLower(c) THEN ToUpper[c] ELSE c

RECURSIVE Lower(_)
\* str.lower(), character by character (the string is halved at each step)
Lower(s) ==
    IF Len(s) <= 1 THEN LowerChar(s)
    ELSE Lower(SubSeq(s, 1, Len(s) \div 2)) \o Lower(SubSeq(s, Len(s) \div 2 + 1, Len(s)))

\* `sub in s` on strings
Contains(sub, s) ==
    \E i \in 0..(Len(s) - Len(sub)) : SubSeq(s, i + 1, i + Len(sub)) = sub

\* any(word in s for word in words)
AnyIn(words, s) == \E i \in 1..Len(words) : Contains(words[i], s)

IsSpace(c) == c \in {" ", "\t", "\n", "\r"}

\* str.strip(): from the first to the last character that is no white space
Strip(s) ==
    LET kept == { i \in 1..Len(s) : ~IsSpace(CharAt(s, i)) }
    IN  IF kept = {} THEN ""
        ELSE SubSeq(s, CHOOSE i \in kept : \A j \in kept : i <= j,
                       CHOOSE i \in kept : \A j \in kept : j <= i)

RECURSIVE ReplaceChar(_, _, _)
\* str.replace(old, new) for one-character old and new
ReplaceChar(s, old, new) ==
    IF Len(s) <= 1 THEN (IF s = old THEN new ELSE s)
    ELSE ReplaceChar(SubSeq(s, 1, Len(s) \div 2), old, new)
             \o ReplaceChar(SubSeq(s, Len(s) \div 2 + 1, Len(s)), old, new)

RECURSIVE TitleFrom(_, _)
TitleFrom(s, prev_cased) ==
    IF s = "" THEN ""
    ELSE LET c == Head(s)
         IN  (IF prev_cased THEN LowerChar(c) ELSE UpperChar(c))
                 \o TitleFrom(Tail(s), IsAlpha(c))

\* str.title()
Title(s) == TitleFrom(s, FALSE)

RECURSIVE Join(_, _)
\* sep.join(parts)
Join(sep, parts) ==
    IF parts = <<>> THEN ""
    ELSE IF Len(parts) = 1 THEN parts[1]
    ELSE Join(sep, SubSeq(parts, 1, Len(parts) \div 2)) \o sep
             \o Join(sep, SubSeq(parts, Len(parts) \div 2 + 1, Len(parts)))

\* code point order of the characters that occur in file names
CodeOrder == " -./0123456789ABCDEFGHIJKLMNOPQRSTUVWXYZ_abcdefghijklmnopqrstuvwxyz"
CodePoint == [c \in { CharAt(CodeOrder, i) : i \in 1..Len(CodeOrder) } |->
                IndexIn(c, CodeOrder)]
Ord(c) == CodePoint[c]

\* a < b on strings: decided at the first position where they differ, a proper
\* prefix being the smaller
StrLess(a, b) ==
    LET n == IF Len(a) < Len(b) THEN Len(a) ELSE Len(b)
        differ == { i \in 1..n : CharAt(a, i) # CharAt(b, i) }
    IN  IF differ = {} THEN Len(a) < Len(b)
        ELSE LET d == CHOOSE i \in differ : \A j \in differ : i <= j
             IN  Ord(CharAt(a, d)) < Ord(CharAt(b, d))

\* sorted(strings) for strings that differ from each other: each at the place
\* given by the number of smaller ones
SortedSeq(S) ==
    [k \in 1..Cardinality(S) |->
       CHOOSE x \in S : Cardinality({ y \in S : StrLess(y, x) }) = k - 1]

\* a function as an explicit table of its values, computed once
Tabulated(f) == f @@ f

\* dict.get(key, default)
Get(d, key, default) == IF key \in DOMAIN d THEN d[key] ELSE default


\* [x for sub in seqs for x in sub]
RECURSIVE Flatten(_)
Flatten(seqs) == IF seqs = <<>> THEN <<>> ELSE Head(seqs) \o Flatten(Tail(seqs))

\* list(dict.fromkeys(xs)): the first occurrence of each element, in order
Dedup(xs) ==
    LET firsts == { i \in 1..Len(xs) : \A j \in 1..(i - 1) : xs[j] # xs[i] }
    IN  [k \in 1..Cardinality(firsts) |->
           xs[CHOOSE i \in firsts : Cardinality({ j \in firsts : j <= i }) = k]]

\* xs[:n]
Take(xs, n) == SubSeq(xs, 1, IF Len(xs) < n THEN Len(xs) ELSE n)

-----------------------------------------------------------------------------
(* get_image_paths: the listing of one image folder *)

image_extensions == {".jpg", ".jpeg", ".png", ".gif", ".webp"}

\* 1-based position of the last occurrence of character c in s, 0 when absent
RFind(s, c) ==
    LET at == { i \in 1..Len(s) : CharAt(s, i) = c }
    IN  IF at = {} THEN 0 ELSE CHOOSE i \in at : \A j \in at : j <= i

\* pathlib's PurePath.suffix of a file name
Suffix(name) ==
    LET i == RFind(name, ".")
    IN  IF 1 < i /\ i < Len(name) THEN SubSeq(name, i, Len(name)) ELSE ""

\* the listing without the test of the extension
get_image_paths_any_file(dsk, section, subfolder) ==
    LET section_path == section \o "/" \o subfolder
    IN  IF section_path \notin DOMAIN dsk THEN <<>>
        ELSE IF ~dsk[section_path].is_dir THEN <<>>
        ELSE SortedSeq({ "/" \o section \o "/" \o subfolder \o "/" \o f.name :
                           f \in { e \in dsk[section_path].entries : e.is_file } })

\* A folder on disk is absent from DOMAIN disk, or [is_dir, entries] with
\* entries a set of [name, is_file]; iterdir of a path that is no directory
\* raises, which get_image_paths catches.
get_image_paths(dsk, section, subfolder) ==
    LET section_path == section \o "/" \o subfolder
    IN  IF section_path \notin DOMAIN dsk THEN <<>>
        ELSE IF ~dsk[section_path].is_dir THEN <<>>
        ELSE SortedSeq({ "/" \o section \o "/" \o subfolder \o "/" \o f.name :
                           f \in { e \in dsk[section_path].entries :
                                     e.is_file /\ Lower(Suffix(e.name)) \in image_extensions } })

-----------------------------------------------------------------------------
(* search_portfolio_data: the keyword context extractor *)

basic_info_keywords == <<"name", "summary", "title", "quote", "about", "intro">>
contact_keywords == <<"contact", "email", "phone", "location", "reach">>
skills_keywords == <<"skill", "technology", "programming", "frontend", "backend",
                     "database", "tools", "mobile">>
experience_keywords == <<"experience", "work", "job", "company", "maq", "career", "role">>
education_keywords == <<"education", "degree", "university", "college", "qualification">>
certification_keywords == <<"certification", "certificate", "aws", "react", "python", "course">>
project_keywords == <<"project", "agrivision", "health-buddy", "study-buddy", "sarthi",
                      "suraksha", "code-off-duty">>
hackathon_keywords == <<"hackathon", "devfest", "arena", "microsoft", "code", "contest",
                        "competition", "kriyeta", "build-a-thon">>

project_folder_mappings ==
    << <<"agrivision", "agrivision">>, <<"health-buddy", "health-buddy">>,
       <<"health buddy", "health-buddy">>, <<"study-buddy", "study-buddy">>,
       <<"study buddy", "study-buddy">>, <<"sarthi", "sarthi">>,
       <<"suraksha", "surasksha-suchak">>, <<"code-off-duty", "code-off-duty">>,
       <<"code off duty", "code-off-duty">> >>

hackathon_folder_mappings ==
    << <<"devfest", "devfest">>, <<"microsoft", "microsoft">>, <<"kriyeta", "kriyeta3.0">>,
       <<"build-a-thon", "build-a-thon">>, <<"build a thon", "build-a-thon">>,
       <<"code-a-haunt", "code-a-haunt">>, <<"code a haunt", "code-a-haunt">>,
       <<"arena", "arena">>, <<"code-of-duty", "code-of-duty">>,
       <<"code of duty", "code-of-duty">>, <<"coding blocks", "codingblockslpu">>,
       <<"codingblocks", "codingblockslpu">> >>

\* the query tested as it was typed
QueryNotLowered(query) == query

\* the lower-cased query every bucket test reads
QueryLower(query) == Lower(query)

\* the `for keyword, folder in mappings.items(): if ...: extend; break` loop
FolderImages(dsk, section, mappings, query_lower, name_lower) ==
    LET hits == { i \in 1..Len(mappings) :
                    Contains(mappings[i][1], query_lower) \/ Contains(mappings[i][1], name_lower) }
    IN  IF hits = {} THEN <<>>
        ELSE LET first == CHOOSE i \in hits : \A j \in hits : i <= j
             IN  get_image_paths(dsk, section, mappings[first][2])

BasicInfoParts(data) ==
    LET exp_summary == Get(data, "experienceSummary", <<>>)
    IN  << "Name: " \o Get(data, "name", ""), "Title: " \o Get(data, "title", "") >>
        \o (IF DOMAIN exp_summary # {}
            THEN << "Experience Summary: " \o Get(exp_summary, "yearsExperience", "")
                        \o " years experience",
                    "Projects Completed: " \o Get(exp_summary, "projectsCompleted", ""),
                    "Technologies Known: " \o Get(exp_summary, "technologiesKnown", ""),
                    "Hackathons Participated: "
                        \o Get(exp_summary, "hackathonsParticipated", "") >>
            ELSE <<>>)

ContactParts(data) ==
    LET contact == Get(data, "contact", <<>>)
    IN  << "Email: " \o Get(contact, "email", ""),
           "Phone: " \o Get(contact, "phone", ""),
           "Location: " \o Get(contact, "location", "") >>

\* a dict the code iterates is a sequence of <<key, value>> in insertion order
PairList(pairs, sep) ==
    Join(", ", [i \in 1..Len(pairs) |-> pairs[i][1] \o sep \o pairs[i][2]])

SkillsParts(data) ==
    LET skills == Get(data, "skills", <<>>)
        technologies == Get(data, "technologies", <<>>)
        legend == Get(data, "proficiencyLegend", <<>>)
    IN  (IF technologies # <<>>
         THEN << "Main Technologies: " \o Join(", ", technologies) >> ELSE <<>>)
        \o [i \in 1..Len(skills) |->
              Title(ReplaceChar(skills[i][1], "_", " ")) \o ": "
                \o Join(", ", [j \in 1..Len(skills[i][2]) |->
                                 skills[i][2][j][1] \o " (" \o skills[i][2][j][2] \o ")"])]
        \o (IF legend # <<>>
            THEN << "Proficiency Legend: " \o PairList(legend, ": ") >> ELSE <<>>)

ListLine(label, items) ==
    IF items # <<>> THEN << label \o Join(", ", items) >> ELSE <<>>

ExperienceParts(data) ==
    LET work_exp == Get(data, "workExperience", <<>>)
    IN  Flatten([i \in 1..Len(work_exp) |->
          LET exp == work_exp[i]
          IN  << "Role: " \o Get(exp, "role", "") \o " (" \o Get(exp, "type", "")
                     \o ") at " \o Get(exp, "company", ""),
                 "Duration: " \o Get(exp, "years", "") \o ", Location: "
                     \o Get(exp, "location", "") >>
              \o ListLine("Achievements: ", Get(exp, "achievements", <<>>))
              \o ListLine("Technologies Used: ", Get(exp, "technologies", <<>>))])

EducationParts(data) ==
    LET education == Get(data, "education", <<>>)
    IN  Flatten([i \in 1..Len(education) |->
          LET edu == education[i]
              degree == IF Get(edu, "degree", "") # "" THEN edu.degree
                        ELSE Get(edu, "qualification", "")
              grade == Get(edu, "grade", "")
          IN  << "Education: " \o degree \o " in " \o Get(edu, "field", "") \o " from "
                     \o Get(edu, "institution", "") \o " (" \o Get(edu, "years", "") \o ")" >>
              \o (IF grade # "" THEN << "Grade: " \o grade >> ELSE <<>>)
              \o ListLine("Achievements: ", Get(edu, "achievements", <<>>))])

CertificationParts(data) ==
    LET certifications == Get(data, "certifications", <<>>)
    IN  [i \in 1..Len(certifications) |->
          LET cert == certifications[i]
          IN  "Certification: " \o Get(cert, "name", "") \o " by " \o Get(cert, "issuer", "")
                  \o " (" \o Get(cert, "year", "") \o ")"]

ProjectParts(data) ==
    LET projects == Get(data, "projects", <<>>)
    IN  Flatten([i \in 1..Len(projects) |->
          LET project == projects[i]
              github_link == Get(project, "githubLink", "")
              deployment_link == Get(project, "deploymentLink", "")
          IN  << "Project: " \o Get(project, "name", "") \o " ("
                     \o Get(project, "category", "") \o ")",
                 "Description: " \o Get(project, "description", ""),
                 "Duration: " \o Get(project, "duration", "") \o ", Team Size: "
                     \o Get(project, "teamSize", "") >>
              \o ListLine("Technologies: ", Get(project, "technologies", <<>>))
              \o ListLine("Features: ", Get(project, "features", <<>>))
              \o (IF github_link # "" THEN << "GitHub: " \o github_link >> ELSE <<>>)
              \o (IF deployment_link # "" THEN << "Live Demo: " \o deployment_link >>
                  ELSE <<>>)])

ProjectImages(query_lower, data, dsk) ==
    LET projects == Get(data, "projects", <<>>)
    IN  Flatten([i \in 1..Len(projects) |->
          FolderImages(dsk, "projects", project_folder_mappings, query_lower,
                       ReplaceChar(Lower(Get(projects[i], "name", "")), " ", "-"))])

\* data['hackathons'] is a dict with a summary and 'events' (a record), or a
\* bare list of events, written [as_list |-> events]
IsDict(hackathons_data) == "as_list" \notin DOMAIN hackathons_data

hackathon_events(data) ==
    LET hackathons_data == Get(data, "hackathons", <<>>)
    IN  IF IsDict(hackathons_data) THEN Get(hackathons_data, "events", <<>>)
        ELSE hackathons_data.as_list

HackathonParts(data) ==
    LET hackathons_data == Get(data, "hackathons", <<>>)
        events == hackathon_events(data)
    IN  (IF IsDict(hackathons_data)
         THEN << "Total Hackathons Participated: "
                     \o Get(hackathons_data, "totalParticipated", ""),
                 "Wins/Top Places: " \o Get(hackathons_data, "winsOrTopPlaces", ""),
                 "Team Members Worked With: " \o Get(hackathons_data, "teamMembers", "") >>
         ELSE <<>>)
        \o Flatten([i \in 1..Len(events) |->
             LET hackathon == events[i]
             IN  << "Hackathon: " \o Get(hackathon, "event", ""),
                    "Result: " \o Get(hackathon, "result", "") \o " ("
                        \o Get(hackathon, "monthYear", "") \o ")",
                    "Host: " \o Get(hackathon, "host", "") \o ", Team Size: "
                        \o Get(hackathon, "teamSize", "") >>
                 \o ListLine("Technologies: ", Get(hackathon, "technologies", <<>>))
                 \o ListLine("Awards: ", Get(hackathon, "awards", <<>>))
                 \o ListLine("Team Members: ", Get(hackathon, "members", <<>>))])

HackathonImages(query_lower, data, dsk) ==
    LET events == hackathon_events(data)
    IN  Flatten([i \in 1..Len(events) |->
          FolderImages(dsk, "hackathons", hackathon_folder_mappings, query_lower,
                       ReplaceChar(Lower(Get(events[i], "event", "")), " ", "-"))])

\* the eight `if any(word in query_lower ...)` blocks, in the order of the code:
\* <<tag, keyword list>>
Buckets ==
    << <<"basic_info", basic_info_keywords>>, <<"contact", contact_keywords>>,
       <<"skills", skills_keywords>>, <<"experience", experience_keywords>>,
       <<"education", education_keywords>>, <<"certifications", certification_keywords>>,
       <<"projects", project_keywords>>, <<"hackathons", hackathon_keywords>> >>

BucketParts(tag, data) ==
    CASE tag = "basic_info" -> BasicInfoParts(data)
      [] tag = "contact" -> ContactParts(data)
      [] tag = "skills" -> SkillsParts(data)
      [] tag = "experience" -> ExperienceParts(data)
      [] tag = "education" -> EducationParts(data)
      [] tag = "certifications" -> CertificationParts(data)
      [] tag = "projects" -> ProjectParts(data)
      [] tag = "hackathons" -> HackathonParts(data)

\* the bucket tags appended to relevant_sections, in order
MatchedTags(query) ==
    LET query_lower == QueryLower(query)
    IN  Flatten([i \in 1..Len(Buckets) |->
          IF AnyIn(Buckets[i][2], query_lower) THEN << Buckets[i][1] >> ELSE <<>>])

\* the blocks as an if/elif chain: only the first matched bucket adds lines
ContextPartsFirstMatch(query, data) ==
    LET tags == MatchedTags(query)
    IN  IF tags = <<>> THEN <<>> ELSE BucketParts(tags[1], data)

\* context_parts at the end of the function
ContextParts(query, data) ==
    LET tags == MatchedTags(query)
    IN  Flatten([i \in 1..Len(tags) |-> BucketParts(tags[i], data)])

\* the list `images` before the duplicates are removed
CollectedImages(query, data, dsk) ==
    LET query_lower == QueryLower(query)
    IN  (IF AnyIn(project_keywords, query_lower)
         THEN ProjectImages(query_lower, data, dsk) ELSE <<>>)
        \o (IF AnyIn(hackathon_keywords, query_lower)
            THEN HackathonImages(query_lower, data, dsk) ELSE <<>>)

MaxImages == 15

\* images[:15], the duplicates kept
ReturnedImagesNoDedup(images) == Take(images, MaxImages)

\* unique_images[:15]
ReturnedImages(images) == Take(Dedup(images), MaxImages)

\* set(relevant_sections)
SectionSet(query) == { MatchedTags(query)[i] : i \in 1..Len(MatchedTags(query)) }

\* list(some set): the elements once each, in an order the hash seed decides
ListsOf(S) ==
    { s \in [1..Cardinality(S) -> S] : \A i, j \in 1..Cardinality(S) : s[i] = s[j] => i = j }

\* the tuple search_portfolio_data returns, the third component for one
\* iteration order of the set; `collected` is the list `images` kept beside it
search_portfolio_data(query, data, dsk, order) ==
    [ context |-> Join("\n", ContextParts(query, data)),
      images |-> ReturnedImages(CollectedImages(query, data, dsk)),
      relevant_sections |-> order,
      collected |-> CollectedImages(query, data, dsk) ]

-----------------------------------------------------------------------------
(* The inputs: profile documents, image folders, queries *)

\* the fallback profile initialize_app installs
DefaultProfile ==
    [ name |-> "K Sree Charan",
      title |-> "Full Stack Developer at MAQ Software Solutions",
      technologies |-> <<"Python", "Machine Learning", "React", "Node.js">>,
      experienceSummary |-> [ yearsExperience |-> "1+", projectsCompleted |-> "15+",
                              technologiesKnown |-> "10+", hackathonsParticipated |-> "10+" ],
      workExperience |-> <<>>,
      education |-> <<>>,
      projects |-> <<>>,
      hackathons |-> [ events |-> <<>> ],
      contact |-> [ email |-> "sreecharan9484@gmail.com", phone |-> "+91 9876543210",
                    location |-> "Noida, India" ] ]

\* a document with every section of the schema filled in
FullProfile ==
    [ name |-> "K Sree Charan",
      title |-> "Full Stack Developer",
      technologies |-> <<"React", "Node.js">>,
      experienceSummary |-> [ yearsExperience |-> "1+", projectsCompleted |-> "15+" ],
      contact |-> [ email |-> "a@b.c", phone |-> "+91 1", location |-> "Noida" ],
      skills |-> << <<"frontend", << <<"React", "Expert">>, <<"CSS", "Advanced">> >> >>,
                    <<"mobile_dev", << <<"Flutter", "Beginner">> >> >> >>,
      proficiencyLegend |-> << <<"Expert", "90-100">>, <<"Advanced", "70-89">> >>,
      workExperience |-> << [ role |-> "Developer", type |-> "Full-time", company |-> "MAQ",
                              years |-> "2025", location |-> "Noida",
                              achievements |-> <<"5+ apps", "mentored 2">>,
                              technologies |-> <<"Node.js">> ] >>,
      education |-> << [ degree |-> "B.Tech", field |-> "CSE", institution |-> "LPU",
                         years |-> "2021-2025", grade |-> "8.5" ],
                       [ qualification |-> "XII", institution |-> "School",
                         achievements |-> <<"Topper">> ] >>,
      certifications |-> << [ name |-> "AWS Basics", issuer |-> "AWS", year |-> "2024" ] >>,
      projects |-> << [ name |-> "AgriVision", category |-> "AI", description |-> "Crops",
                        duration |-> "3 months", teamSize |-> "4",
                        technologies |-> <<"Python">>, features |-> <<"Detect">>,
                        githubLink |-> "github.com/x/agri" ],
                      [ name |-> "Health Buddy", category |-> "Health",
                        deploymentLink |-> "hb.app" ],
                      [ name |-> "Notes" ] >>,
      hackathons |-> [ totalParticipated |-> "8", winsOrTopPlaces |-> "3",
                       teamMembers |-> "12",
                       events |-> << [ event |-> "DevFest 2024", result |-> "Winner",
                                       monthYear |-> "Nov 2024", host |-> "GDG",
                                       teamSize |-> "4", awards |-> <<"Best UI">>,
                                       members |-> <<"A", "B">> ],
                                     [ event |-> "Code Arena", result |-> "Top 10" ],
                                     [ event |-> "Microsoft Hack",
                                       technologies |-> <<"Azure">> ] >> ] ]

\* a document that keeps its hackathons as a bare list
ListProfile ==
    [ name |-> "K",
      projects |-> << [ name |-> "Study Buddy" ], [ name |-> "AgriVision 2" ] >>,
      hackathons |-> [ as_list |-> << [ event |-> "Kriyeta" ], [ event |-> "devfest" ] >> ] ]

\* the JSON document {}
EmptyProfile == <<>>

Profiles == { DefaultProfile, FullProfile, ListProfile, EmptyProfile }

File(name) == [ name |-> name, is_file |-> TRUE ]
Dir(name) == [ name |-> name, is_file |-> FALSE ]
Folder(entries) == [ is_dir |-> TRUE, entries |-> entries ]
NotAFolder == [ is_dir |-> FALSE, entries |-> {} ]

NoFolders == <<>>

\* a few folders: upper-case extensions, files that are no images, a
\* sub-directory with an image name, a path that is a file
SmallDisk ==
    [ p \in { "projects/agrivision", "projects/study-buddy", "hackathons/devfest",
              "hackathons/arena", "hackathons/microsoft" } |->
        CASE p = "projects/agrivision" ->
               Folder({ File("2.png"), File("10.png"), File("Cover.JPG"), File("notes.txt"),
                        File(".png"), File("readme"), Dir("old.png") })
          [] p = "projects/study-buddy" -> Folder({ File("a.webp"), File("b.gif.bak") })
          [] p = "hackathons/devfest" -> Folder({ File("team.jpeg"), File("stage.jpg") })
          [] p = "hackathons/arena" -> Folder({})
          [] p = "hackathons/microsoft" -> NotAFolder ]

\* folders with many images, so that the cap is reached
Numbered(n, ext) == { File(CharAt("abcdefghijklmnopqrstuvwxyz", i) \o ext) : i \in 1..n }

LargeDisk ==
    [ p \in { "projects/agrivision", "projects/health-buddy", "hackathons/devfest",
              "hackathons/kriyeta3.0" } |->
        CASE p = "projects/agrivision" -> Folder(Numbered(9, ".png"))
          [] p = "projects/health-buddy" -> Folder(Numbered(8, ".jpg"))
          [] p = "hackathons/devfest" -> Folder(Numbered(16, ".jpg"))
          [] p = "hackathons/kriyeta3.0" -> Folder(Numbered(3, ".gif")) ]

Disks == { NoFolders, SmallDisk, LargeDisk }

\* the questions the search is applied to
SearchQueries ==
    { "", "hello", "hackathon", "HACKATHON wins", "Tell me about your projects",
      "agrivision project", "health buddy", "Show the AgriVision and DevFest photos",
      "education and degree", "What is your work experience?", "code-off-duty",
      "contact email", "skills", "react course", "kriyeta", "name",
      "study buddy project and microsoft hackathon",
      "hackathon, projects, skills and name", "name, skills, projects and hackathon" }

-----------------------------------------------------------------------------
(* The answer generator *)

\* the greeting returned for an empty context (its six bullet emoji are left
\* out: the lexer takes no character outside the basic plane)
FallbackGreeting ==
    "Hello! I'm K Sree Charan's portfolio assistant. I can help you learn about:\n        \n         Professional Experience at MAQ Software Solutions\n         Technical Skills and Technologies\n         Projects (AgriVision, Health Buddy, Study Buddy, Sarthi, and more)\n         Hackathon Achievements and Awards\n         Education and Certifications\n         Contact Information\n        \n        Please ask me about any of these topics!"

ExperienceTemplate(context) ==
    "Based on my portfolio data, here's information about K Sree Charan's work experience:\n\n" \o context \o "\n\nK Sree Charan is currently working as a Full Stack Developer at MAQ Software Solutions since 2025, where he has developed 5+ web applications and improved app performance by 40%. He has also mentored 2 junior developers and works with technologies like Node.js, TypeScript, MongoDB, Express.js, AWS, and AI/ML.\n\nWould you like to know more about specific projects or skills?"

ProjectsTemplate(context) ==
    "Here are K Sree Charan's key projects:\n\n" \o context \o "\n\nThese projects showcase expertise in full-stack development, AI/ML integration, and healthcare technology. Each project includes detailed GitHub repositories and live demonstrations.\n\nWould you like to explore any specific project in detail?"

HackathonsTemplate(context) ==
    "K Sree Charan has an impressive track record in hackathons:\n\n" \o context \o "\n\nWith 8+ hackathon participations and multiple wins including DevFest, Microsoft Hackathon, and Kriyeta 3.0, K Sree Charan has demonstrated consistent excellence in competitive programming and innovation.\n\nWould you like to know more about any specific hackathon or achievement?"

SkillsTemplate(context) ==
    "K Sree Charan's technical expertise includes:\n\n" \o context \o "\n\nThe skills span across frontend development (React, Next.js, TypeScript), backend technologies (Node.js, Python), databases (MongoDB, PostgreSQL), and cloud services (AWS). All skills are rated with proficiency levels for transparency.\n\nWould you like to know more about any specific technology or skill area?"

DefaultTemplate(context) ==
    "Based on your question about K Sree Charan's portfolio:\n\n" \o context \o "\n\nThis information provides a comprehensive overview of the requested topic. K Sree Charan is a skilled Full Stack Developer with expertise in modern technologies, successful project delivery, and competitive programming achievements.\n\nFeel free to ask more specific questions about experience, projects, skills, or achievements!"

\* the chain with the hackathon test moved to the front
TemplateOfHackathonsFirst(question) ==
    LET question_lower == Lower(question)
    IN  IF AnyIn(<<"hackathon", "competition", "award">>, question_lower) THEN "hackathons"
        ELSE IF AnyIn(<<"experience", "work", "job", "maq">>, question_lower)
             THEN "experience"
        ELSE IF AnyIn(<<"project", "agrivision", "health", "study">>, question_lower)
             THEN "projects"
        ELSE IF AnyIn(<<"skill", "technology", "tech">>, question_lower) THEN "skills"
        ELSE "default"

\* the if/elif chain on question_lower: the template the question selects
TemplateOf(question) ==
    LET question_lower == Lower(question)
    IN  IF AnyIn(<<"experience", "work", "job", "maq">>, question_lower) THEN "experience"
        ELSE IF AnyIn(<<"project", "agrivision", "health", "study">>, question_lower)
             THEN "projects"
        ELSE IF AnyIn(<<"hackathon", "competition", "award">>, question_lower)
             THEN "hackathons"
        ELSE IF AnyIn(<<"skill", "technology", "tech">>, question_lower) THEN "skills"
        ELSE "default"

\* generate_fallback_response, given the template its question selects
FallbackResponse(context, template) ==
    IF context = "" THEN FallbackGreeting
    ELSE CASE template = "experience" -> ExperienceTemplate(context)
           [] template = "projects" -> ProjectsTemplate(context)
           [] template = "hackathons" -> HackathonsTemplate(context)
           [] template = "skills" -> SkillsTemplate(context)
           [] template = "default" -> DefaultTemplate(context)

generate_fallback_response(context, question) ==
    FallbackResponse(context, TemplateOf(question))

\* the test without the lower(): "quota" in str(e) or "429" in str(e)
IsQuotaErrorCaseSensitive(message) == Contains("quota", message) \/ Contains("429", message)

\* the test of the except block: "quota" in str(e).lower() or "429" in str(e)
IsQuotaError(message) == Contains("quota", Lower(message)) \/ Contains("429", message)

\* the apology without str(e)
GeminiApologyWithoutText(message) ==
    "I apologize, but I encountered an error while processing your request. Please try again."

GeminiApology(message) ==
    "I apologize, but I encountered an error while processing your request. Please try again. Error: "
        \o message

\* what generate_response_with_gemini returns once generate_content has
\* returned a text or raised (outcome is [ok, text, message]), given the
\* template the question selects and whether the message passes the quota test
GeminiResult(context, template, outcome, is_quota) ==
    IF outcome.ok THEN outcome.text
    ELSE IF is_quota THEN FallbackResponse(context, template)
    ELSE GeminiApology(outcome.message)

GeminiAnswer(context, question, outcome) ==
    GeminiResult(context, TemplateOf(question), outcome, IsQuotaError(outcome.message))

\* what the generative API may answer: a text, or an exception with its message
ApiText == "K Sree Charan took part in several hackathons."
QuotaMessage == "429 Resource has been exhausted (e.g. check quota)."
QuotaUpperMessage == "Quota exceeded for metric: generate_content requests"
InternalMessage == "500 An internal error has occurred."

ApiOutcomes ==
    { [ok |-> TRUE, text |-> ApiText, message |-> ""] }
    \cup { [ok |-> FALSE, text |-> "", message |-> m] :
             m \in { QuotaMessage, QuotaUpperMessage, InternalMessage } }

-----------------------------------------------------------------------------
(* Start of the process: the module body of app.py, then initialize_app when
   app.py is the program; wsgi.py only imports app *)

None == [NoneType |-> TRUE]

\* `not x` for the global portfolio_data: None or an empty dict
IsFalsy(data) == data = None \/ DOMAIN data = {}

\* os.getenv("GOOGLE_API_KEY")
api_key(environment) == Get(environment, "GOOGLE_API_KEY", "")

Environments ==
    { <<>>, [GOOGLE_API_KEY |-> ""], [GOOGLE_API_KEY |-> "AIzaSyExampleKey"] }

\* ./sreedata.json: absent, not JSON, unreadable, or a JSON document
Missing == [kind |-> "missing", doc |-> None]
Malformed == [kind |-> "malformed", doc |-> None]
Unreadable == [kind |-> "unreadable", doc |-> None]
JsonFile(doc) == [kind |-> "json", doc |-> doc]

\* a JSON document that is a non-empty list and no object: json.load takes it
ListDocument == [as_list |-> <<"K Sree Charan">>]

IsListDocument(data) == DOMAIN data = {"as_list"}

JsonFiles ==
    { Missing, Malformed, Unreadable, JsonFile(None), JsonFile(EmptyProfile),
      JsonFile(FullProfile), JsonFile(ListDocument) }

ServedDisks == { SmallDisk }

\* the model built outside the `if api_key:` test
ConfiguredModelWithoutKey(environment, ok) ==
    IF ok THEN "GenerativeModel" ELSE "None"

\* the module-level configuration of the generative model
ConfiguredModel(environment, ok) ==
    IF api_key(environment) # "" /\ ok THEN "GenerativeModel" ELSE "None"

\* load_portfolio_data: [raised, data]; it raises FileNotFoundError when the
\* file is absent and also after a decode or read error (the loop continues)
load_portfolio_data(file) ==
    IF file.kind = "json" THEN [raised |-> FALSE, data |-> file.doc]
    ELSE [raised |-> TRUE, data |-> None]

\* initialize_app: the value of the global portfolio_data when it returns
InitializedData(file) ==
    IF load_portfolio_data(file).raised THEN DefaultProfile
    ELSE load_portfolio_data(file).data

-----------------------------------------------------------------------------
(* Requests.  Each request is handled by its own worker thread; req[r] is the
   position of worker r in its handler and the locals it holds. *)

MaxReq == 2
Requests == 1..MaxReq

\* the body of a POST /chat: no JSON, the object {}, an object without
\* 'question', a question that is a number, a question that is a string
NotJson == [kind |-> "not_json", question |-> ""]
EmptyObject == [kind |-> "empty_object", question |-> ""]
NoQuestion == [kind |-> "no_question", question |-> ""]
NumberQuestion == [kind |-> "question_number", question |-> ""]
Question(q) == [kind |-> "question", question |-> q]

ServedQuestions ==
    { "", "  \t", "hackathon", " What is your work EXPERIENCE?\n", "hello" }

ChatBodies ==
    { NotJson, EmptyObject, NoQuestion, NumberQuestion }
    \cup { Question(q) : q \in ServedQuestions }

NoBody == [kind |-> "none", question |-> ""]
NoOutcome == [ok |-> FALSE, text |-> "", message |-> ""]
NoResponse == [kind |-> "none", status |-> 0]

Idle ==
    [ stage |-> "idle", route |-> "", body |-> NoBody, query |-> "", context |-> "", images |-> <<>>,
      relevant_sections |-> <<>>, calls |-> 0, outcome |-> NoOutcome,
      response |-> NoResponse ]

ErrorResponse(status, message) ==
    [ kind |-> "error", status |-> status, error |-> message ]

ChatResponse(status, answer, images, relevant_sections) ==
    [ kind |-> "chat", status |-> status, answer |-> answer, images |-> images,
      relevant_sections |-> relevant_sections ]

\* str(e) of the exceptions raised inside the try block of chat
UnsupportedMediaType ==
    "415 Unsupported Media Type: Did not attempt to load JSON data because the request Content-Type was not 'application/json'."
NoStripAttribute == "'int' object has no attribute 'strip'"

ChatApology(message) ==
    "I apologize, but I encountered an error while processing your request: " \o message

\* the apology without str(e)
ChatExceptionWithoutText(message) == ChatResponse(500, ChatApology(""), <<>>, <<>>)

\* the except block of chat
ChatException(message) == ChatResponse(500, ChatApology(message), <<>>, <<>>)

FallbackContext ==
    "I can help you with information about K Sree Charan's skills, experience, education, hackathons, and projects."

Done(slot, route, response) ==
    [ slot EXCEPT !.stage = "done", !.route = route, !.response = response ]

\* chat, from its first line to the strip and the empty test: the response it
\* returns there, or the stripped query it goes on with
ChatValidation(not_loaded, body) ==
    IF not_loaded
    THEN [ returns |-> TRUE, query |-> "",
           response |-> ErrorResponse(500,
               "Portfolio data not loaded. Please check the server configuration.") ]
    ELSE IF body.kind = "not_json"
    THEN [ returns |-> TRUE, query |-> "", response |-> ChatException(UnsupportedMediaType) ]
    ELSE IF body.kind \in { "empty_object", "no_question" }
    THEN [ returns |-> TRUE, query |-> "",
           response |-> ErrorResponse(400, "Question is required") ]
    ELSE IF body.kind = "question_number"
    THEN [ returns |-> TRUE, query |-> "", response |-> ChatException(NoStripAttribute) ]
    ELSE IF Strip(body.question) = ""
    THEN [ returns |-> TRUE, query |-> "",
           response |-> ErrorResponse(400, "Question cannot be empty") ]
    ELSE [ returns |-> FALSE, query |-> Strip(body.question), response |-> NoResponse ]

\* the validation, the template choice and the quota test on the bodies,
\* questions and API outcomes the requests can bring, tabulated
ServedValidation ==
    Tabulated([ x \in BOOLEAN \X ChatBodies |-> ChatValidation(x[1], x[2]) ])

ServedTemplate ==
    Tabulated([ q \in { Strip(b) : b \in ServedQuestions } |-> TemplateOf(q) ])

ServedQuota == Tabulated([ o \in ApiOutcomes |-> IsQuotaError(o.message) ])

\* POST /chat arrives and the handler runs up to the call of the search
ChatBegin(r, body) ==
    /\ pc = "serving"
    /\ req[r].stage = "idle"
    /\ \A j \in Requests : j < r => req[j].stage # "idle"
    /\ LET v == ServedValidation[<<IsFalsy(portfolio_data), body>>]
       IN  req' = [req EXCEPT ![r] =
                     IF v.returns THEN Done([@ EXCEPT !.body = body], "/chat", v.response)
                     ELSE [@ EXCEPT !.stage = "search", !.route = "/chat", !.body = body,
                                    !.query = v.query]]
    /\ UNCHANGED <<entry, env, configure_ok, json_file, disk, pc, gemini_model,
                   portfolio_data, init_ran, api_calls, sp, fs, fr>>

\* search_portfolio_data on the queries, profiles and folders the requests
\* can bring together, tabulated
\* str(e) of data.get(...) on a profile that is a list
NoGetAttribute == "'list' object has no attribute 'get'"

\* the first matched bucket calls data.get: AttributeError when data is a list
SearchRaises(query, data) == IsListDocument(data) /\ MatchedTags(query) # <<>>

\* the call of line 541: it raises, or returns one of the tuples (one for each
\* iteration order of the set); a query that matches no bucket never reads data
SearchOutcome(query, data, dsk) ==
    IF SearchRaises(query, data)
    THEN [ raised |-> TRUE, message |-> NoGetAttribute, found |-> {} ]
    ELSE [ raised |-> FALSE, message |-> "",
           found |-> { search_portfolio_data(query,
                           IF IsListDocument(data) THEN EmptyProfile ELSE data, dsk, order) :
                         order \in ListsOf(SectionSet(query)) } ]

ServedSearch ==
    Tabulated([ x \in { Strip(q) : q \in ServedQuestions }
                       \X { InitializedData(f) : f \in JsonFiles } \X ServedDisks |->
                  IF x[1] = "" \/ IsFalsy(x[2])
                  THEN [ raised |-> FALSE, message |-> "", found |-> {} ]
                  ELSE SearchOutcome(x[1], x[2], x[3]) ])

\* data.setdefault('skills', {}) in place of data.get('skills', {})
ProfileAfterSetDefault(data) ==
    IF "skills" \in DOMAIN data THEN data ELSE data @@ [skills |-> <<>>]

\* the profile after a search: search_portfolio_data reads `data` with .get
\* and subscripts, appends to lists of its own, and assigns nothing in it
ProfileAfterSearch(data) == data

\* the context handed on as the search returned it
ContextKeptEmpty(context) == context

\* `if not context: context = "I can help you with ..."`
ContextOrFallback(context) == IF context = "" THEN FallbackContext ELSE context

\* the generic context only when the search matched no bucket
ChatContextBySections(found) ==
    IF found.relevant_sections = <<>> THEN FallbackContext ELSE found.context

\* the context chat passes to generate_response_with_gemini after the search
ChatContext(found) == ContextOrFallback(found.context)

\* context, images, relevant_sections = search_portfolio_data(...), then the
\* generic context when the search found none
ChatSearch(r) ==
    /\ req[r].stage = "search"
    /\ LET outcome == ServedSearch[<<req[r].query, portfolio_data, disk>>]
       IN  IF outcome.raised
           THEN req' = [req EXCEPT ![r] = Done(@, "/chat", ChatException(outcome.message))]
           ELSE \E found \in outcome.found :
                      req' = [req EXCEPT ![r] =
                                [@ EXCEPT !.stage = "generate",
                                          !.context = ChatContext(found),
                                          !.images = found.images,
                                          !.relevant_sections = found.relevant_sections]]
    /\ portfolio_data' = ProfileAfterSearch(portfolio_data)
    /\ UNCHANGED <<entry, env, configure_ok, json_file, disk, pc, gemini_model,
                   init_ran, api_calls, sp, fs, fr>>

ChatOk(slot, answer) ==
    Done(slot, "/chat", ChatResponse(200, answer, slot.images, slot.relevant_sections))

\* generate_response_with_gemini up to generate_content: without a model the
\* fallback answers at once, with one the worker blocks in the API call
ChatGenerate(r) ==
    /\ req[r].stage = "generate"
    /\ IF gemini_model = "None"
       THEN /\ req' = [req EXCEPT ![r] =
                         ChatOk(@, FallbackResponse(@.context, ServedTemplate[@.query]))]
            /\ UNCHANGED api_calls
       ELSE /\ req' = [req EXCEPT ![r] = [@ EXCEPT !.stage = "calling", !.calls = @ + 1]]
            /\ api_calls' = api_calls + 1
    /\ UNCHANGED <<entry, env, configure_ok, json_file, disk, pc, gemini_model,
                   portfolio_data, init_ran, sp, fs, fr>>

\* generate_content returns or raises, and the handler answers
ChatApiReturn(r, outcome) ==
    /\ req[r].stage = "calling"
    /\ req' = [req EXCEPT ![r] =
                 ChatOk([@ EXCEPT !.outcome = outcome],
                        GeminiResult(@.context, ServedTemplate[@.query], outcome,
                                     ServedQuota[outcome]))]
    /\ UNCHANGED <<entry, env, configure_ok, json_file, disk, pc, gemini_model,
                   portfolio_data, init_ran, api_calls, sp, fs, fr>>

\* len(portfolio_data.get('hackathons', {}).get('events', [])) if it is a dict
hackathons_count(data) ==
    LET hackathons_data == Get(data, "hackathons", <<>>)
    IN  IF IsDict(hackathons_data) THEN Len(Get(hackathons_data, "events", <<>>)) ELSE 0

has_hackathons(data) ==
    LET hackathons_data == Get(data, "hackathons", <<>>)
    IN  IF IsDict(hackathons_data) THEN DOMAIN hackathons_data # {}
        ELSE hackathons_data.as_list # <<>>

\* the structure with the technologies counted as projects
portfolio_structure_wrong_count(data) ==
    IF IsFalsy(data) THEN <<>>
    ELSE [ has_name |-> Get(data, "name", "") # "",
           has_workExperience |-> Get(data, "workExperience", <<>>) # <<>>,
           has_projects |-> Get(data, "projects", <<>>) # <<>>,
           has_hackathons |-> has_hackathons(data),
           has_skills |-> Get(data, "skills", <<>>) # <<>>,
           has_contact |-> DOMAIN Get(data, "contact", <<>>) # {},
           projects_count |-> Len(Get(data, "technologies", <<>>)),
           hackathons_count |-> hackathons_count(data) ]

portfolio_structure(data) ==
    IF IsFalsy(data) THEN <<>>
    ELSE [ has_name |-> Get(data, "name", "") # "",
           has_workExperience |-> Get(data, "workExperience", <<>>) # <<>>,
           has_projects |-> Get(data, "projects", <<>>) # <<>>,
           has_hackathons |-> has_hackathons(data),
           has_skills |-> Get(data, "skills", <<>>) # <<>>,
           has_contact |-> DOMAIN Get(data, "contact", <<>>) # {},
           projects_count |-> Len(Get(data, "projects", <<>>)),
           hackathons_count |-> hackathons_count(data) ]

\* an exception no handler catches: Flask answers 500
Unhandled(message) == [ kind |-> "unhandled", status |-> 500, error |-> message ]

health_check(data, environment, model) ==
    IF IsListDocument(data) THEN Unhandled(NoGetAttribute) ELSE
    [ kind |-> "health", status |-> 200,
      portfolio_data_loaded |-> data # None,
      portfolio_structure |-> portfolio_structure(data),
      google_api_key_set |-> api_key(environment) # "",
      gemini_model_ready |-> model # "None",
      api_key_length |-> Len(api_key(environment)) ]

\* GET /health
HealthCheck(r) ==
    /\ pc = "serving"
    /\ req[r].stage = "idle"
    /\ \A j \in Requests : j < r => req[j].stage # "idle"
    /\ req' = [req EXCEPT ![r] =
                 Done(@, "/health", health_check(portfolio_data, env, gemini_model))]
    /\ UNCHANGED <<entry, env, configure_ok, json_file, disk, pc, gemini_model,
                   portfolio_data, init_ran, api_calls, sp, fs, fr>>

portfolio_summary(data) ==
    IF IsFalsy(data) THEN ErrorResponse(500, "Portfolio data not loaded")
    ELSE IF IsListDocument(data) THEN Unhandled(NoGetAttribute)
    ELSE [ kind |-> "summary", status |-> 200,
           name |-> Get(data, "name", ""),
           title |-> Get(data, "title", ""),
           main_sections |->
             [ workExperience |-> Len(Get(data, "workExperience", <<>>)),
               education |-> Len(Get(data, "education", <<>>)),
               projects |-> Len(Get(data, "projects", <<>>)),
               certifications |-> Len(Get(data, "certifications", <<>>)),
               skills_categories |-> Len(Get(data, "skills", <<>>)),
               hackathons |-> hackathons_count(data) ],
           technologies |-> Get(data, "technologies", <<>>),
           experienceSummary |-> Get(data, "experienceSummary", <<>>) ]

\* GET /portfolio-summary
PortfolioSummary(r) ==
    /\ pc = "serving"
    /\ req[r].stage = "idle"
    /\ \A j \in Requests : j < r => req[j].stage # "idle"
    /\ req' = [req EXCEPT ![r] = Done(@, "/portfolio-summary", portfolio_summary(portfolio_data))]
    /\ UNCHANGED <<entry, env, configure_ok, json_file, disk, pc, gemini_model,
                   portfolio_data, init_ran, api_calls, sp, fs, fr>>

\* the static routes and the directory each serves from
StaticRoutes ==
    << <<"/hackathons", "hackathons">>, <<"/projects", "projects">>,
       <<"/member-photoes", "member-photoes">>, <<"/photo", "hackathons">>,
       <<"/projectfolder", "projects">> >>

\* the <path:filename> asked for: <<subfolder, name>>
StaticFiles == { <<"devfest", "team.jpeg">> }

\* send_from_directory: the file, or 404 when there is no such file
send_from_directory(dsk, directory, filename) ==
    LET folder == directory \o "/" \o filename[1]
    IN  IF /\ folder \in DOMAIN dsk
           /\ dsk[folder].is_dir
           /\ File(filename[2]) \in dsk[folder].entries
        THEN [ kind |-> "file", status |-> 200,
               path |-> folder \o "/" \o filename[2] ]
        ELSE ErrorResponse(404, "Not Found")

\* GET /hackathons/.., /projects/.., /member-photoes/.., /photo/.., /projectfolder/..
ServeStatic(r, i, filename) ==
    /\ pc = "serving"
    /\ req[r].stage = "idle"
    /\ \A j \in Requests : j < r => req[j].stage # "idle"
    /\ req' = [req EXCEPT ![r] =
                 Done(@, StaticRoutes[i][1],
                      send_from_directory(disk, StaticRoutes[i][2], filename))]
    /\ UNCHANGED <<entry, env, configure_ok, json_file, disk, pc, gemini_model,
                   portfolio_data, init_ran, api_calls, sp, fs, fr>>

-----------------------------------------------------------------------------
(* The process *)

Unused == <<>>

Init ==
    /\ entry \in { "app.py", "wsgi.py" }
    /\ env \in Environments
    /\ configure_ok \in (IF api_key(env) # "" THEN BOOLEAN ELSE { TRUE })
    /\ json_file \in JsonFiles
    /\ disk \in ServedDisks
    /\ pc = "import"
    /\ gemini_model = "None"
    /\ portfolio_data = None
    /\ init_ran = FALSE
    /\ req = [r \in Requests |-> Idle]
    /\ api_calls = 0
    /\ sp = Unused
    /\ fs = Unused
    /\ fr = Unused

\* the module body of app.py runs: the globals, the model configuration, the
\* Flask app; then initialize_app under app.py, the server under wsgi.py
ImportApp ==
    /\ pc = "import"
    /\ gemini_model' = ConfiguredModel(env, configure_ok)
    /\ pc' = IF entry = "app.py" THEN "initialize" ELSE "serving"
    /\ UNCHANGED <<entry, env, configure_ok, json_file, disk, portfolio_data, init_ran,
                   req, api_calls, sp, fs, fr>>

\* initialize_app(), then app.run
InitializeApp ==
    /\ pc = "initialize"
    /\ portfolio_data' = InitializedData(json_file)
    /\ init_ran' = TRUE
    /\ pc' = "serving"
    /\ UNCHANGED <<entry, env, configure_ok, json_file, disk, gemini_model, req,
                   api_calls, sp, fs, fr>>

Next ==
    \/ ImportApp
    \/ InitializeApp
    \/ \E r \in Requests, body \in ChatBodies : ChatBegin(r, body)
    \/ \E r \in Requests : ChatSearch(r)
    \/ \E r \in Requests : ChatGenerate(r)
    \/ \E r \in Requests, outcome \in ApiOutcomes : ChatApiReturn(r, outcome)
    \/ \E r \in Requests : HealthCheck(r)
    \/ \E r \in Requests : PortfolioSummary(r)
    \/ \E r \in Requests, i \in 1..Len(StaticRoutes), f \in StaticFiles : ServeStatic(r, i, f)

Spec == Init /\ [][Next]_vars

-----------------------------------------------------------------------------
(* search_portfolio_data as a function of its inputs *)

\* the process is not running: the state of the server is left alone
ServerOff ==
    /\ entry = "" /\ env = <<>> /\ configure_ok = FALSE /\ json_file = Missing
    /\ disk = NoFolders /\ pc = "off" /\ gemini_model = "None" /\ portfolio_data = None
    /\ init_ran = FALSE /\ req = <<>> /\ api_calls = 0

ServerVars ==
    <<entry, env, configure_ok, json_file, disk, pc, gemini_model, portfolio_data,
      init_ran, req, api_calls>>

NoResult == [context |-> "", images |-> <<>>, relevant_sections |-> <<>>, collected |-> <<>>]

InitSearch ==
    /\ ServerOff
    /\ fs = Unused
    /\ fr = Unused
    /\ sp \in { [applied |-> FALSE, query |-> q, data |-> d, disk |-> k, result |-> NoResult] :
                  q \in SearchQueries, d \in Profiles, k \in Disks }

\* one call search_portfolio_data(query, data) with the folders as they are
SearchCall ==
    /\ ~sp.applied
    /\ \E order \in ListsOf(SectionSet(sp.query)) :
         sp' = [sp EXCEPT !.applied = TRUE,
                          !.result = search_portfolio_data(sp.query, sp.data, sp.disk, order)]
    /\ UNCHANGED <<ServerVars, fs, fr>>

NextSearch == SearchCall

SpecSearch == InitSearch /\ [][NextSearch]_vars

-----------------------------------------------------------------------------
(* test.py: find_similar_content, the embedding matcher *)

RECURSIVE Count(_, _)
Count(c, s) == IF s = "" THEN 0 ELSE (IF Head(s) = c THEN 1 ELSE 0) + Count(c, Tail(s))

\* model.encode: a deterministic embedding, here the vector of the numbers of
\* letters a and b of the text; the texts drawn have one of them at least, so
\* no embedding is the zero vector
encode(text) == << Count("a", text), Count("b", text) >>

Dot(u, v) == u[1] * v[1] + u[2] * v[2]

\* The cosine of chunk and query is Dot / (norm * norm); it is kept exact as
\* the pair <<dot product, squared norm of the chunk>>, the norm of the query
\* being the same positive factor for every chunk.
Similarity(query_embedding, chunk_embedding) ==
    << Dot(chunk_embedding, query_embedding), Dot(chunk_embedding, chunk_embedding) >>

SignedSquare(x) == IF x < 0 THEN -(x * x) ELSE x * x

\* s < t for two similarities
SimLess(s, t) == SignedSquare(s[1]) * t[2] < SignedSquare(t[1]) * s[2]

similarities(query, text_chunks) ==
    [i \in 1..Len(text_chunks) |-> Similarity(encode(query), encode(text_chunks[i].content))]

RECURSIVE ArgSortFirst(_, _)
\* np.argsort of the first n entries: ascending, by insertion (what numpy's
\* default sort does on arrays this short), equal entries in index order
ArgSortFirst(sims, n) ==
    IF n = 0 THEN <<>>
    ELSE LET sorted == ArgSortFirst(sims, n - 1)
             k == Cardinality({ i \in 1..Len(sorted) : ~SimLess(sims[n], sims[sorted[i]]) })
         IN  SubSeq(sorted, 1, k) \o <<n>> \o SubSeq(sorted, k + 1, Len(sorted))

ArgSort(sims) == ArgSortFirst(sims, Len(sims))

TopK == 5

\* xs[-n:]
LastN(xs, n) == SubSeq(xs, IF Len(xs) > n THEN Len(xs) - n + 1 ELSE 1, Len(xs))

\* xs[::-1]
Reverse(xs) == [i \in 1..Len(xs) |-> xs[Len(xs) + 1 - i]]

\* np.argsort(similarities)[:5][::-1]: the five least similar
top_indices_from_front(query, text_chunks) ==
    Reverse(Take(ArgSort(similarities(query, text_chunks)), TopK))

\* np.argsort(similarities)[-5:][::-1]
top_indices(query, text_chunks) ==
    Reverse(LastN(ArgSort(similarities(query, text_chunks)), TopK))

find_similar_content(query, text_chunks) ==
    IF text_chunks = <<>> THEN <<>>
    ELSE [k \in 1..Len(top_indices(query, text_chunks)) |->
            text_chunks[top_indices(query, text_chunks)[k]]]

MaxChunks == 6

ChunkTexts == { "a", "b", "ab", "aa" }
MatcherQueries == { "a", "ab" }
Chunk(text) == [content |-> text, type |-> "skills"]

ChunkLists ==
    UNION { [1..n -> { Chunk(t) : t \in ChunkTexts }] : n \in 0..MaxChunks }

InitMatcher ==
    /\ ServerOff
    /\ sp = Unused
    /\ fr = Unused
    /\ fs \in { [applied |-> FALSE, query |-> q, text_chunks |-> c, top_indices |-> <<>>,
                 result |-> <<>>] : q \in MatcherQueries, c \in ChunkLists }

\* one call find_similar_content(query, text_chunks, original_data, model)
FindSimilar ==
    /\ ~fs.applied
    /\ fs' = [fs EXCEPT !.applied = TRUE,
                        !.top_indices = IF fs.text_chunks = <<>> THEN <<>>
                                        ELSE top_indices(fs.query, fs.text_chunks),
                        !.result = find_similar_content(fs.query, fs.text_chunks)]
    /\ UNCHANGED <<ServerVars, sp, fr>>

NextMatcher == FindSimilar

SpecMatcher == InitMatcher /\ [][NextMatcher]_vars

-----------------------------------------------------------------------------
(* generate_fallback_response as a function of its inputs *)

\* the questions and contexts the fallback is applied to: keywords of one
\* group, of several groups in either order, of none, in upper case, inside
\* longer words
FallbackQuestions ==
    { "", "hello", "What is your WORK experience?", "project at maq", "hackathon project",
      "award for technology", "skills", "Health and tech", "network", "competition job",
      "study skills", "tech", "Agrivision awards", "technology", "job", "AWARD",
      "education", "skill, hackathon, project, maq", "studying", "contact" }

FallbackContexts ==
    { "", "Name: K Sree Charan", "Role: Developer () at MAQ\nDuration: 2025, Location: ",
      FallbackContext }

InitFallback ==
    /\ ServerOff
    /\ sp = Unused
    /\ fs = Unused
    /\ fr \in { [applied |-> FALSE, context |-> c, question |-> q, result |-> ""] :
                  c \in FallbackContexts, q \in FallbackQuestions }

\* one call generate_fallback_response(context, question)
FallbackCall ==
    /\ ~fr.applied
    /\ fr' = [fr EXCEPT !.applied = TRUE,
                        !.result = generate_fallback_response(fr.context, fr.question)]
    /\ UNCHANGED <<ServerVars, sp, fs>>

NextFallback == FallbackCall

SpecFallback == InitFallback /\ [][NextFallback]_vars

-----------------------------------------------------------------------------
(* The claims *)

Range(xs) == { xs[i] : i \in 1..Len(xs) }
NoRepeat(xs) == \A i, j \in 1..Len(xs) : xs[i] = xs[j] => i = j
FirstIndex(xs, x) == CHOOSE i \in 1..Len(xs) : xs[i] = x /\ \A j \in 1..(i - 1) : xs[j] # x

\* a finished POST /chat of worker r
ChatDone(r) == req[r].stage = "done" /\ req[r].route = "/chat"

\* the canned responses of generate_fallback_response for a context
CannedResponses(context) ==
    { FallbackGreeting, ExperienceTemplate(context), ProjectsTemplate(context),
      HackathonsTemplate(context), SkillsTemplate(context), DefaultTemplate(context) }

\* C1: every POST /chat whose question is the empty string or only white
\* space is answered with status 400, and no call to the generative API is
\* made while it is handled.
C1_EmptyQuestionIs400 ==
    \A r \in Requests :
        ( /\ ChatDone(r)
          /\ req[r].body.kind = "question"
          /\ \A i \in 1..Len(req[r].body.question) :
                CharAt(req[r].body.question, i) \in {" ", "\t", "\n", "\r"} )
        => req[r].response.status = 400 /\ req[r].calls = 0

\* the API messages drawn that tell of a quota or rate limit condition
QuotaMessages == { QuotaMessage, QuotaUpperMessage }

\* C2: when the generative API call fails with a message that tells of a quota
\* or rate limit condition, the answer is one of the canned fallback responses
\* and does not contain the text of the error.
C2_QuotaFailureGivesTemplate ==
    \A r \in Requests :
        ( /\ ChatDone(r)
          /\ req[r].calls > 0
          /\ ~req[r].outcome.ok
          /\ req[r].outcome.message \in QuotaMessages )
        => /\ req[r].response.kind = "chat"
           /\ req[r].response.answer \in CannedResponses(req[r].context)
           /\ ~Contains(req[r].outcome.message, req[r].response.answer)

C2_Witness ==
    \E r \in Requests :
        /\ ChatDone(r)
        /\ req[r].calls > 0
        /\ req[r].outcome.message = QuotaUpperMessage
        /\ req[r].response.answer = HackathonsTemplate(req[r].context)

\* C3: the image list search_portfolio_data returns has no path twice, has at
\* most 15 paths, and lists the paths in the order of their first occurrence
\* among the collected ones.
C3_ImagesDedupCapped ==
    sp.applied =>
        LET images == sp.result.images
            collected == sp.result.collected
        IN  /\ NoRepeat(images)
            /\ Len(images) <= 15
            /\ Range(images) \subseteq Range(collected)
            /\ \A i, j \in 1..Len(images) :
                   i < j => FirstIndex(collected, images[i]) < FirstIndex(collected, images[j])

C3_Witness ==
    /\ sp.applied
    /\ Len(sp.result.images) = 15
    /\ ~NoRepeat(sp.result.collected)
    /\ Cardinality(Range(sp.result.collected)) > 15

\* C4: a bucket tag is in the relevant_sections returned if and only if a
\* keyword of that bucket occurs in the lower-cased query, no tag is there
\* twice, and a query with "hackathon" in it gets the hackathons tag and gets
\* the education tag only with an education keyword.
C4_TagIffKeyword ==
    sp.applied =>
        LET sections == sp.result.relevant_sections
            lowered == Lower(sp.query)
        IN  /\ NoRepeat(sections)
            /\ Range(sections) \subseteq { Buckets[i][1] : i \in 1..Len(Buckets) }
            /\ \A i \in 1..Len(Buckets) :
                   Buckets[i][1] \in Range(sections)
                       <=> \E k \in 1..Len(Buckets[i][2]) : Contains(Buckets[i][2][k], lowered)
            /\ Contains("hackathon", lowered) =>
                   /\ "hackathons" \in Range(sections)
                   /\ "education" \in Range(sections) =>
                          \E w \in { "education", "degree", "university", "college",
                                     "qualification" } : Contains(w, lowered)

C4_Witness ==
    /\ sp.applied
    /\ sp.query = "HACKATHON wins"
    /\ sp.result.relevant_sections = <<"hackathons">>

\* C5: when sreedata.json is missing or is no JSON, the process comes to serve
\* requests with the built-in default profile as its in-memory profile.
C5_DefaultProfileInstalled ==
    (pc = "serving" /\ json_file.kind \in { "missing", "malformed" })
        => portfolio_data = DefaultProfile

\* C6: with the built-in default profile in memory, GET /health reports
\* portfolio_data_loaded true and projects_count 0.
C6_HealthOfDefaultProfile ==
    \A r \in Requests :
        ( /\ req[r].stage = "done"
          /\ req[r].route = "/health"
          /\ portfolio_data = DefaultProfile )
        => /\ req[r].response.status = 200
           /\ req[r].response.portfolio_data_loaded = TRUE
           /\ req[r].response.portfolio_structure.projects_count = 0

C6_Witness ==
    \E r \in Requests :
        /\ req[r].stage = "done"
        /\ req[r].route = "/health"
        /\ json_file = Missing
        /\ portfolio_data = DefaultProfile
        /\ req[r].response.portfolio_structure.projects_count = 0

C9_NoCredentialNoApi ==
    ( /\ pc # "import"
      /\ ("GOOGLE_API_KEY" \notin DOMAIN env \/ env["GOOGLE_API_KEY"] = "") )
    => /\ gemini_model = "None"
       /\ api_calls = 0
       /\ \A r \in Requests :
              /\ req[r].calls = 0
              /\ req[r].stage # "calling"
              /\ (ChatDone(r) /\ req[r].context # "")
                     => req[r].response.answer \in CannedResponses(req[r].context)

C9_Witness ==
    \E r \in Requests :
        /\ "GOOGLE_API_KEY" \notin DOMAIN env
        /\ ChatDone(r)
        /\ req[r].context # ""
        /\ req[r].response.answer = ExperienceTemplate(req[r].context)

\* C10: once the server serves, no step of any request handler changes the
\* in-memory profile, however the requests interleave.
C10_ProfileReadOnly == [][pc = "serving" => portfolio_data' = portfolio_data]_vars

C10_Witness ==
    \E r1, r2 \in Requests :
        /\ r1 # r2
        /\ portfolio_data = DefaultProfile
        /\ ChatDone(r1) /\ req[r1].context # ""
        /\ req[r2].stage = "generate"

\* str(e) of the exception that handling the finished /chat of worker r raised
\* with a truthy profile, "" when it raised none: a body that is no JSON, a
\* question that is a number, a bucket read from a profile that is a list
ExceptionOf(r) ==
    IF req[r].body.kind = "not_json" THEN UnsupportedMediaType
    ELSE IF req[r].body.kind = "question_number" THEN NoStripAttribute
    ELSE IF /\ req[r].body.kind = "question"
            /\ Strip(req[r].body.question) # ""
            /\ IsListDocument(portfolio_data)
            /\ \E i \in 1..Len(Buckets) :
                   AnyIn(Buckets[i][2], Lower(req[r].body.question))
         THEN NoGetAttribute
    ELSE ""

\* C11 as stated: every exception raised while a /chat request is handled, the
\* failure of the generative API call among them, becomes a 500 response whose
\* answer is an apology with the text of the exception in it and whose images
\* and relevant_sections are empty.
C11_AnyExceptionReachesTopLevel ==
    \A r \in Requests :
        (ChatDone(r) /\ ~IsFalsy(portfolio_data)) =>
            LET message == IF ExceptionOf(r) # "" THEN ExceptionOf(r)
                           ELSE IF req[r].calls > 0 /\ ~req[r].outcome.ok
                                THEN req[r].outcome.message
                           ELSE ""
            IN  message # "" =>
                    /\ req[r].response.kind = "chat"
                    /\ req[r].response.status = 500
                    /\ Contains("I apologize", req[r].response.answer)
                    /\ Contains(message, req[r].response.answer)
                    /\ req[r].response.images = <<>>
                    /\ req[r].response.relevant_sections = <<>>

\* C11: an exception that reaches the except block of chat (raised by reading
\* the body, by the strip of the question or by the search; a failure of the
\* generative API call is caught inside generate_response_with_gemini) becomes
\* a 500 response whose answer is an apology with the text of the exception in
\* it and whose images and relevant_sections are empty; the process goes on
\* serving and takes the next request.
C11_ExceptionsCaught ==
    /\ \A r \in Requests :
          (ChatDone(r) /\ ~IsFalsy(portfolio_data) /\ ExceptionOf(r) # "") =>
              /\ req[r].response.kind = "chat"
              /\ req[r].response.status = 500
              /\ Contains("I apologize", req[r].response.answer)
              /\ Contains(ExceptionOf(r), req[r].response.answer)
              /\ req[r].response.images = <<>>
              /\ req[r].response.relevant_sections = <<>>
    /\ (\E r \in Requests : req[r].stage # "idle") => pc = "serving"
    /\ (pc = "serving" /\ \E r \in Requests : req[r].stage = "idle") =>
          ENABLED (\E r \in Requests, body \in ChatBodies : ChatBegin(r, body))

C11_Witness ==
    \E r1, r2 \in Requests :
        /\ r1 < r2
        /\ ChatDone(r1)
        /\ req[r1].response = ChatException(NoGetAttribute)
        /\ ChatDone(r2)
        /\ req[r2].response.status = 200

\* C12: whichever entry point started the process, once it serves requests
\* initialize_app has completed and the in-memory profile is not None, and no
\* /chat or /portfolio-summary request is answered with the 500 error
\* 'Portfolio data not loaded'.
C12_ProfileLoadedBeforeRequests ==
    /\ pc = "serving" => (init_ran /\ portfolio_data # None)
    /\ \A r \in Requests :
          (req[r].stage = "done" /\ req[r].route \in { "/chat", "/portfolio-summary" }) =>
              ~( /\ req[r].response.kind = "error"
                 /\ req[r].response.status = 500
                 /\ Contains("Portfolio data not loaded", req[r].response.error) )

\* the bucket tags in the order the buckets are defined
BucketOrder ==
    << "basic_info", "contact", "skills", "experience", "education", "certifications",
       "projects", "hackathons" >>

\* whether a keyword of the bucket with this tag occurs in the lower-cased query
BucketMatches(tag, query) ==
    \E i \in 1..Len(Buckets) :
        /\ Buckets[i][1] = tag
        /\ \E k \in 1..Len(Buckets[i][2]) : Contains(Buckets[i][2][k], Lower(query))

\* C13: the context returned is the lines of the matched buckets, all the
\* lines of each, joined in the order basic info, contact, skills, experience,
\* education, certifications, projects, hackathons, wherever their keywords
\* stand in the query; a bucket that is not matched adds nothing.
C13_ContextInBucketOrder ==
    sp.applied =>
        sp.result.context =
            Join("\n", Flatten([i \in 1..Len(BucketOrder) |->
                                  IF BucketMatches(BucketOrder[i], sp.query)
                                  THEN BucketParts(BucketOrder[i], sp.data) ELSE <<>>]))

C13_Witness ==
    /\ sp.applied
    /\ sp.query = "hackathon, projects, skills and name"
    /\ sp.data = FullProfile
    /\ SubSeq(sp.result.context, 1, 19) = "Name: K Sree Charan"
    /\ Contains("\nMain Technologies: React, Node.js\nFrontend: React (Expert), CSS (Advanced)\n",
                sp.result.context)
    /\ Contains("\nProject: AgriVision (AI)\n", sp.result.context)
    /\ Contains("\nHackathon: Microsoft Hack\n", sp.result.context)

\* queries with no keyword of any bucket in them
NoMatchQueries == { "", "hello", "health buddy" }

NoBucketMatches(query) == \A i \in 1..Len(BucketOrder) : ~BucketMatches(BucketOrder[i], query)

\* search_portfolio_data on those queries, for every profile and disk drawn
NoMatchSearchIsEmpty ==
    \A q \in NoMatchQueries, d \in Profiles, k \in Disks :
        /\ NoBucketMatches(q)
        /\ SectionSet(q) = {}
        /\ LET found == search_portfolio_data(q, d, k, <<>>)
           IN  found.context = "" /\ found.images = <<>>

\* NoBucketMatches on the stripped questions the requests bring
ServedNoMatch ==
    Tabulated([ q \in { Strip(b) : b \in ServedQuestions } |-> NoBucketMatches(q) ])

\* a /chat of worker r that has come back from the search and goes on to, or
\* is through, the answer generator
PastSearch(r) ==
    /\ req[r].route = "/chat"
    /\ \/ req[r].stage \in { "generate", "calling" }
       \/ req[r].stage = "done" /\ req[r].response.status = 200

\* C14: for the empty query and for a query that matches no bucket,
\* search_portfolio_data returns an empty context, no image and no section
\* tag, whatever the profile and the folders; and a /chat whose question
\* matches no bucket hands the generic fallback context to the answer
\* generator, with no image and no section tag.
C14_NoMatchGivesFallbackContext ==
    /\ NoMatchSearchIsEmpty
    /\ \A r \in Requests :
          (PastSearch(r) /\ ServedNoMatch[req[r].query]) =>
              /\ req[r].context = FallbackContext
              /\ req[r].images = <<>>
              /\ req[r].relevant_sections = <<>>

C14_Witness ==
    \E r \in Requests :
        /\ ChatDone(r)
        /\ req[r].query = "hello"
        /\ ServedNoMatch[req[r].query]
        /\ req[r].response =
               ChatResponse(200, DefaultTemplate(FallbackContext), <<>>, <<>>)

\* the alias table of a section and the names of the profile's entries in it
SectionMappings(section) ==
    IF section = "projects" THEN project_folder_mappings ELSE hackathon_folder_mappings

SectionNames(section, data) ==
    IF section = "projects"
    THEN { Get(Get(data, "projects", <<>>)[i], "name", "") :
             i \in 1..Len(Get(data, "projects", <<>>)) }
    ELSE { Get(hackathon_events(data)[i], "event", "") : i \in 1..Len(hackathon_events(data)) }

\* the subfolders the aliases that occur in the query map to
QueryFolders(section, query) ==
    LET mappings == SectionMappings(section)
        lowered == Lower(query)
    IN  { mappings[i][2] : i \in { j \in 1..Len(mappings) : Contains(mappings[j][1], lowered) } }

\* the subfolders the aliases that occur in the name of a project or of an
\* event of the profile (lower-cased, blanks as hyphens) map to
NameFolders(section, data) ==
    LET mappings == SectionMappings(section)
        names == { ReplaceChar(Lower(n), " ", "-") : n \in SectionNames(section, data) }
    IN  { mappings[i][2] :
            i \in { j \in 1..Len(mappings) : \E n \in names : Contains(mappings[j][1], n) } }

HasImageExtension(name) ==
    \E ext \in {".jpg", ".jpeg", ".png", ".gif", ".webp"} :
        /\ Len(name) > Len(ext)
        /\ Lower(SubSeq(name, Len(name) - Len(ext) + 1, Len(name))) = ext

\* the paths of the files with an image extension in these subfolders
ImagePathsIn(dsk, section, folders) ==
    UNION { IF section \o "/" \o f \in DOMAIN dsk
            THEN { "/" \o section \o "/" \o f \o "/" \o e.name :
                     e \in { x \in dsk[section \o "/" \o f].entries :
                               x.is_file /\ HasImageExtension(x.name) } }
            ELSE {} : f \in folders }

FolderOf(path) == SubSeq(path, 1, RFind(path, "/"))

SortedWithinFolders(images) ==
    \A i, j \in 1..Len(images) :
        (i < j /\ FolderOf(images[i]) = FolderOf(images[j])) => StrLess(images[i], images[j])

\* C15 as stated: every image collected is an image file of a subfolder that
\* an alias occurring in the query maps to, and the paths of one folder are
\* listed in sorted order.
C15_ImagesFromQueryAliases ==
    sp.applied =>
        /\ Range(sp.result.collected) \subseteq
               ImagePathsIn(sp.disk, "projects", QueryFolders("projects", sp.query))
               \cup ImagePathsIn(sp.disk, "hackathons", QueryFolders("hackathons", sp.query))
        /\ SortedWithinFolders(sp.result.images)

\* C15: every image collected is an image file of a subfolder that an alias
\* maps to, the alias occurring in the query or in the name of a project or
\* hackathon event of the profile; the paths of one folder are listed in
\* sorted order; without the projects and the hackathons bucket matched no
\* image is collected.
C15_ImagesFromResolvedFolders ==
    sp.applied =>
        /\ Range(sp.result.collected) \subseteq
               ImagePathsIn(sp.disk, "projects",
                            QueryFolders("projects", sp.query)
                                \cup NameFolders("projects", sp.data))
               \cup ImagePathsIn(sp.disk, "hackathons",
                                 QueryFolders("hackathons", sp.query)
                                     \cup NameFolders("hackathons", sp.data))
        /\ SortedWithinFolders(sp.result.images)
        /\ Range(sp.result.images) = Range(sp.result.collected) \/ Len(sp.result.images) = 15
        /\ (~BucketMatches("projects", sp.query) /\ ~BucketMatches("hackathons", sp.query))
               => sp.result.collected = <<>>

C15_Witness ==
    /\ sp.applied
    /\ sp.query = "Show the AgriVision and DevFest photos"
    /\ sp.data = FullProfile
    /\ sp.result.images =
           << "/projects/agrivision/10.png", "/projects/agrivision/2.png",
              "/projects/agrivision/Cover.JPG", "/hackathons/devfest/stage.jpg",
              "/hackathons/devfest/team.jpeg" >>

\* the message of the other failure passes neither test of the quota check
InternalMessageIsNoQuota ==
    ~Contains("quota", Lower(InternalMessage)) /\ ~Contains("429", InternalMessage)

\* C16: when the generative API call fails with a message that has neither
\* "quota" (in any letter case) nor "429" in it, the answer is an apology with
\* the text of the error in it; a /chat request makes at most one call to the
\* generative API, and once the call has failed the request is answered and
\* calls no more.
C16_OtherFailureGivesApology ==
    /\ InternalMessageIsNoQuota
    /\ \A r \in Requests :
          /\ req[r].calls \in { 0, 1 }
          /\ req[r].stage = "calling" => req[r].calls = 1
          /\ (req[r].calls = 1 /\ req[r].stage # "calling") => ChatDone(r)
          /\ (ChatDone(r) /\ req[r].calls = 1 /\ ~req[r].outcome.ok
                 /\ req[r].outcome.message = InternalMessage) =>
                 /\ req[r].response.kind = "chat"
                 /\ Contains("I apologize", req[r].response.answer)
                 /\ Contains(InternalMessage, req[r].response.answer)
    /\ api_calls = Cardinality({ r \in Requests : req[r].calls = 1 })

C16_Witness ==
    \E r \in Requests :
        /\ ChatDone(r)
        /\ req[r].calls = 1
        /\ api_calls = 1
        /\ req[r].outcome = [ok |-> FALSE, text |-> "", message |-> InternalMessage]
        /\ req[r].response.answer = GeminiApology(InternalMessage)

\* the keyword groups of the templates, in their priority order
TemplateGroups ==
    << <<"experience", "work", "job", "maq">>,
       <<"project", "agrivision", "health", "study">>,
       <<"hackathon", "competition", "award">>,
       <<"skill", "technology", "tech">> >>

\* the groups with a keyword in the lower-cased question
GroupsIn(question) ==
    { g \in 1..Len(TemplateGroups) :
        \E k \in 1..Len(TemplateGroups[g]) : Contains(TemplateGroups[g][k], Lower(question)) }

\* the five templates for a context, in priority order, the default one last
TemplatesFor(context) ==
    << ExperienceTemplate(context), ProjectsTemplate(context), HackathonsTemplate(context),
       SkillsTemplate(context), DefaultTemplate(context) >>

\* C17: with a non-empty context generate_fallback_response returns exactly
\* one of the five templates: the one of the earliest group, in the order
\* experience, projects, hackathons, skills, that has a keyword in the
\* question, the default one when no group has; the text returned has the
\* context in it, unchanged.
C17_FirstMatchingTemplate ==
    (fr.applied /\ fr.context # "") =>
        LET groups == GroupsIn(fr.question)
            first == IF groups = {} THEN 5
                     ELSE CHOOSE g \in groups : \A h \in groups : g <= h
            templates == TemplatesFor(fr.context)
        IN  /\ fr.result = templates[first]
            /\ \A t \in 1..5 : t # first => fr.result # templates[t]
            /\ Contains("\n\n" \o fr.context \o "\n\n", fr.result)

C17_Witness ==
    /\ fr.applied
    /\ fr.question = "skill, hackathon, project, maq"
    /\ Cardinality(GroupsIn(fr.question)) = 4
    /\ fr.context = "Name: K Sree Charan"
    /\ fr.result = ExperienceTemplate("Name: K Sree Charan")

\* C18: a /chat request that reaches the answer generator passes it a context
\* that is not empty, also when a bucket matched and the profile has no entry
\* for it; no /chat response carries the greeting of
\* generate_fallback_response.
C18_ContextNeverEmpty ==
    \A r \in Requests :
        /\ PastSearch(r) => req[r].context # ""
        /\ (ChatDone(r) /\ req[r].response.kind = "chat") =>
               req[r].response.answer # FallbackGreeting

C18_Witness ==
    \E r \in Requests :
        /\ ChatDone(r)
        /\ portfolio_data = DefaultProfile
        /\ req[r].query = "What is your work EXPERIENCE?"
        /\ req[r].relevant_sections = <<"experience">>
        /\ req[r].context = FallbackContext
        /\ req[r].response.answer = ExperienceTemplate(FallbackContext)

=============================================================================
